---------------------------- MODULE Spec2Model ----------------------------
(* A model of src/src/main.py: the VoltageData container, its two          *)
(* constructions (in-memory sequences and VoltageData.from_file), its      *)
(* accessors, indexing, row iteration and spline construction/evaluation.  *)
(*                                                                          *)
(* Text is modelled at the character level: a line of the input file is a  *)
(* sequence of one-character strings, and strip/split/float are computed   *)
(* on it as Python computes them.  Floats are modelled by the naturals the *)
(* digit strings denote.  Python's None is the empty tuple and a present   *)
(* value x is the one-element tuple <<x>>.                                 *)
EXTENDS Integers, Sequences, FiniteSets

\* ------------------------------------------------------------------ bounds

\* Largest number of tab-separated fields in an input line.
MaxFields == 3
\* Largest number of lines in an input file.
MaxLines == 2
\* Longest sequence handed to the in-memory constructor.
MaxRows == 4
\* Largest index used in an indexing or slicing request.
MaxIdx == 4

\* ---------------------------------------------------------------- constants

\* Degree of the spline: `len(self)>3` and `k=3`.
SplineDegree == 3
\* Index of the optional column read by voltage_errs: `self._data[:, 2]`.
ErrColumn == 2

TAB == "\t"
NL == "\n"
Digits == {"1"}
\* The texts a field of an input line is drawn from: empty, two numerals and
\* one that is no numeral.
FieldTexts == {<< >>, << "1" >>, << "1", "1" >>, << "x" >>}
\* Characters str.strip() removes (those of them the model's text can hold).
Whitespace == {TAB, NL}

\* The values the in-memory sequences are drawn from.
TimeVals == {1, 2}
VoltVals == {3}
ErrVals == {5}
\* The time sequences handed to the constructor: every sequence over
\* TimeVals, and the strictly increasing 1, 2, ..., n.
TimeSeqs ==
    UNION {[1..k -> TimeVals] : k \in 0..MaxRows}
        \cup {[k \in 1..n |-> k] : n \in 0..MaxRows}

None == << >>
Some(x) == << x >>

\* ------------------------------------------------------------- text helpers

SeqsUpTo(S, n) == UNION {[1..k -> S] : k \in 0..n}

\* sep.join(fields)
RECURSIVE join(_, _)
join(fields, sep) ==
    IF Len(fields) = 0 THEN << >>
    ELSE IF Len(fields) = 1 THEN fields[1]
    ELSE fields[1] \o << sep >> \o join(Tail(fields), sep)

\* The bodies of the lines a file can hold (the newline is added on reading):
\* one to MaxFields field texts joined by tabs, and the comments: a '#'
\* followed by nothing, by one field or by two.
LineBodies ==
    {join(fs, TAB) : fs \in UNION {[1..n -> FieldTexts] : n \in 1..MaxFields}}

CommentBodies ==
    {<< "#" >> \o join(fs, TAB) : fs \in UNION {[1..n -> FieldTexts] : n \in 1..2}}

Lines == LineBodies \cup CommentBodies

\* str.startswith("#")
startswith(s, c) == Len(s) > 0 /\ s[1] = c

RECURSIVE lstrip(_, _)
lstrip(s, chars) ==
    IF Len(s) > 0 /\ s[1] \in chars THEN lstrip(Tail(s), chars) ELSE s

RECURSIVE rstrip(_, _)
rstrip(s, chars) ==
    IF Len(s) > 0 /\ s[Len(s)] \in chars
    THEN rstrip(SubSeq(s, 1, Len(s) - 1), chars)
    ELSE s

\* str.strip(chars): the leading and trailing characters in chars removed;
\* str.strip() is strip(s, Whitespace).
strip(s, chars) == rstrip(lstrip(s, chars), chars)

\* str.split(sep): always at least one field; an empty field between two
\* adjacent separators.
RECURSIVE splitFrom(_, _, _)
splitFrom(s, sep, cur) ==
    IF s = << >> THEN << cur >>
    ELSE IF s[1] = sep THEN << cur >> \o splitFrom(Tail(s), sep, << >>)
    ELSE splitFrom(Tail(s), sep, Append(cur, s[1]))

split(s, sep) == splitFrom(s, sep, << >>)

\* float(s) succeeds on a non-empty string of digits (the only numerals the
\* alphabet can spell) and raises ValueError on anything else.
IsFloat(s) == Len(s) > 0 /\ \A k \in 1..Len(s) : s[k] \in Digits

DigitVal(c) == IF c = "1" THEN 1 ELSE 0

RECURSIVE FloatVal(_)
FloatVal(s) ==
    IF s = << >> THEN 0
    ELSE 10 * FloatVal(SubSeq(s, 1, Len(s) - 1)) + DigitVal(s[Len(s)])

\* ------------------------------------------------------------------- arrays

\* A 2-D float64 array: its shape and its rows.
Array2(r, c, rs) == [shape |-> << r, c >>, rows |-> rs]
NoData == Array2(0, 0, << >>)

\* A call's outcome: a returned value, or a raised exception, with what the
\* call printed on the way.
Return(x, prints) == [kind |-> "return", val |-> Some(x), exc |-> "", printed |-> prints]
ReturnNone(prints) == [kind |-> "return", val |-> None, exc |-> "", printed |-> prints]
Raise(e, prints) == [kind |-> "raise", val |-> None, exc |-> e, printed |-> prints]

\* np.column_stack((t, v)) on two 1-D arrays: the lengths must agree.
ColumnStack2(a, b) ==
    IF Len(a) # Len(b) THEN Raise("ValueError", << >>)
    ELSE Return(Array2(Len(a), 2, [k \in 1..Len(a) |-> << a[k], b[k] >>]), << >>)

\* np.column_stack((data, col)): a 1-D array becomes one more column, and the
\* row counts must agree.
ColumnStackCol(d, col) ==
    IF Len(col) # d.shape[1] THEN Raise("ValueError", << >>)
    ELSE Return(Array2(d.shape[1], d.shape[2] + 1,
                       [k \in 1..d.shape[1] |-> Append(d.rows[k], col[k])]), << >>)

\* VoltageData.__init__ that forgets the uncertainties (a mutant).
VoltageData_DropErrs(times, voltages, voltage_errors) ==
    ColumnStack2(times, voltages)

\* VoltageData.__init__(times, voltages, voltage_errors=None); voltage_errors
\* is None or Some(sequence).  The outcome holds the new instance's _data.
VoltageData(times, voltages, voltage_errors) ==
    LET tv == ColumnStack2(times, voltages) IN
    IF tv.kind = "raise" THEN tv
    ELSE IF voltage_errors # None
         THEN ColumnStackCol(tv.val[1], voltage_errors[1])
         ELSE tv

\* ---------------------------------------------------------------- from_file

\* One pass of the loop body's try block over the split fields: the locals
\* after it, and the exception that left it ("" when none did).
TryState(t, v, dv, e) == [t |-> t, v |-> v, dv |-> dv, exc |-> e]

\* The try block as the docstring describes it: every field is parsed before
\* anything is appended (a mutant).
TryBlock_ParseFirst(values, t, v, dv) ==
    IF ~IsFloat(values[1]) THEN TryState(t, v, dv, "ValueError")
    ELSE IF Len(values) < 2 THEN TryState(t, v, dv, "IndexError")
    ELSE IF ~IsFloat(values[2]) THEN TryState(t, v, dv, "ValueError")
    ELSE IF Len(values) < 3
         THEN TryState(Append(t, FloatVal(values[1])),
                       Append(v, FloatVal(values[2])), dv, "IndexError")
    ELSE IF ~IsFloat(values[3]) THEN TryState(t, v, dv, "ValueError")
    ELSE TryState(Append(t, FloatVal(values[1])), Append(v, FloatVal(values[2])),
                  Append(dv, FloatVal(values[3])), "")

\* The try block that reports a missing value field like a bad one (a mutant).
TryBlock_ShortIsValueError(values, t, v, dv) ==
    IF ~IsFloat(values[1]) THEN TryState(t, v, dv, "ValueError")
    ELSE IF Len(values) < 2 THEN TryState(t, v, dv, "ValueError")
    ELSE IF ~IsFloat(values[2]) THEN TryState(t, v, dv, "ValueError")
    ELSE LET t2 == Append(t, FloatVal(values[1]))
             v2 == Append(v, FloatVal(values[2]))
         IN IF Len(values) < 3 THEN TryState(t2, v2, dv, "IndexError")
            ELSE IF ~IsFloat(values[3]) THEN TryState(t2, v2, dv, "ValueError")
            ELSE TryState(t2, v2, Append(dv, FloatVal(values[3])), "")

\* The try block of the source, statement by statement (values is 1-based
\* here: values[1] is Python's values[0]).
TryBlock(values, t, v, dv) ==
    \* t_value = float(values[0])
    IF ~IsFloat(values[1]) THEN TryState(t, v, dv, "ValueError")
    \* v_value = float(values[1])
    ELSE IF Len(values) < 2 THEN TryState(t, v, dv, "IndexError")
    ELSE IF ~IsFloat(values[2]) THEN TryState(t, v, dv, "ValueError")
    \* t.append(t_value); v.append(v_value)
    ELSE LET t2 == Append(t, FloatVal(values[1]))
             v2 == Append(v, FloatVal(values[2]))
         IN \* dv_value = float(values[2])
            IF Len(values) < 3 THEN TryState(t2, v2, dv, "IndexError")
            ELSE IF ~IsFloat(values[3]) THEN TryState(t2, v2, dv, "ValueError")
            \* dv.append(dv_value)
            ELSE TryState(t2, v2, Append(dv, FloatVal(values[3])), "")

\* values = line.strip().strip("\n").split("\t")
Fields(line) == split(strip(strip(line, Whitespace), {NL}), TAB)

\* The diagnostic print(f"Line {i} error: {e}\n").
Diagnostic(i) == [line |-> i, exc |-> "ValueError"]

\* The loop body for line number i: the locals and the output after it.
LoopState(t, v, dv, o) == [t |-> t, v |-> v, dv |-> dv, out |-> o]

LoopBody(i, line, t, v, dv, o) ==
    IF startswith(line, "#") THEN LoopState(t, v, dv, o)
    ELSE LET r == TryBlock(Fields(line), t, v, dv) IN
         IF r.exc = "ValueError"
         THEN LoopState(r.t, r.v, r.dv, Append(o, Diagnostic(i)))
         ELSE LoopState(r.t, r.v, r.dv, o)

\* The two return statements after the loop.
FromFileReturn(t, v, dv) ==
    IF Len(dv) # 0 THEN VoltageData(t, v, Some(dv)) ELSE VoltageData(t, v, None)

\* What a line is, by its fields alone (used to state the claims; the loop
\* body above does not read it).
Classify(line) ==
    LET f == Fields(line) IN
    [comment |-> startswith(line, "#"),
     nfields |-> Len(f),
     timeOK |-> IsFloat(f[1]),
     valueOK |-> Len(f) >= 2 /\ IsFloat(f[2]),
     thirdPresent |-> Len(f) >= 3,
     thirdOK |-> Len(f) >= 3 /\ IsFloat(f[3])]

NoLine == [comment |-> TRUE, nfields |-> 0, timeOK |-> FALSE, valueOK |-> FALSE,
           thirdPresent |-> FALSE, thirdOK |-> FALSE]

\* ---------------------------------------------------------------- accessors

\* num_rows(): self._data.shape[0]
num_rows(d) == d.shape[1]

\* num_columns(): self._data.shape[1]
num_columns(d) == d.shape[2]

\* __len__(): self.num_rows()
len(d) == num_rows(d)

\* self._data[:, j] for a column number j >= 0 (0-based): numpy raises
\* IndexError when the array has no such column.
Column(d, j) ==
    IF j >= num_columns(d) THEN Raise("IndexError", << >>)
    ELSE Return([k \in 1..num_rows(d) |-> d.rows[k][j + 1]], << >>)

\* timestamps: self._data[:, 0]
timestamps(d) == Column(d, 0)

\* voltages: self._data[:, 1]
voltages(d) == Column(d, 1)

\* voltage_errs without the except clause (a mutant).
voltage_errs_NoCatch(d) == Column(d, ErrColumn)

\* voltage_errs: try self._data[:, 2]; an IndexError becomes AttributeError.
voltage_errs(d) ==
    LET r == Column(d, ErrColumn) IN
    IF r.kind = "raise" /\ r.exc = "IndexError"
    THEN Raise("AttributeError", << >>)
    ELSE r

\* ----------------------------------------------------------------- indexing

Max(a, b) == IF a >= b THEN a ELSE b

\* One bound of a slice with step 1 on an axis of length n, as slice.indices
\* computes it: a negative bound counts from the end, and the result is
\* clamped to 0..n.
SliceBound(x, n) ==
    LET y == IF x < 0 THEN x + n ELSE x IN
    IF y < 0 THEN 0 ELSE IF y > n THEN n ELSE y

\* The positions (0-based) a slice a:b selects on an axis of length n.
SliceStart(a, n) == SliceBound(a, n)
SliceLen(a, b, n) == Max(0, SliceBound(b, n) - SliceBound(a, n))

\* __getitem__(index) with one integer: self._data[idx], the row as a 1-D
\* array, or IndexError out of range.
getitem_row(d, idx) ==
    IF idx < -num_rows(d) \/ idx >= num_rows(d) THEN Raise("IndexError", << >>)
    ELSE Return(d.rows[(IF idx < 0 THEN idx + num_rows(d) ELSE idx) + 1], << >>)

\* __getitem__ with a 2-D slice that reads the rows from the top of the table
\* whatever the slice's start (a mutant).
getitem_slice_FromTop(d, a, b, c, e) ==
    LET nr == SliceLen(a, b, num_rows(d))
        nc == SliceLen(c, e, num_columns(d))
        c0 == SliceStart(c, num_columns(d))
    IN Return(Array2(nr, nc,
                     [k \in 1..nr |-> [j \in 1..nc |-> d.rows[k][c0 + j]]]),
              << >>)

\* __getitem__(index) with the pair of slices a:b, c:e: self._data[a:b, c:e].
getitem_slice(d, a, b, c, e) ==
    LET nr == SliceLen(a, b, num_rows(d))
        nc == SliceLen(c, e, num_columns(d))
        r0 == SliceStart(a, num_rows(d))
        c0 == SliceStart(c, num_columns(d))
    IN Return(Array2(nr, nc,
                     [k \in 1..nr |-> [j \in 1..nc |-> d.rows[r0 + k][c0 + j]]]),
              << >>)

\* ------------------------------------------------------------------- spline

InsufficientPoints == "Insufficient number of points (>3)"

\* spline() with the test off by one (a mutant).
spline_OffByOne(d) ==
    IF len(d) >= SplineDegree
    THEN Return([x |-> timestamps(d).val[1], y |-> voltages(d).val[1],
                 k |-> SplineDegree], << >>)
    ELSE ReturnNone(<< InsufficientPoints >>)

\* spline(): InterpolatedUnivariateSpline(self.timestamps, self.voltages,
\* k=3) when len(self) > 3; otherwise the message is printed and None is
\* returned.  The interpolant is the record of what it was built from.
spline(d) ==
    IF len(d) > SplineDegree
    THEN Return([x |-> timestamps(d).val[1], y |-> voltages(d).val[1],
                 k |-> SplineDegree], << >>)
    ELSE ReturnNone(<< InsufficientPoints >>)

\* __call__(t): spline = self.spline(); return spline(t).  Calling None
\* raises TypeError.  An evaluation is the record of the interpolant and the
\* query time.
call(d, tq) ==
    LET s == spline(d) IN
    IF Len(s.val) = 0
    THEN Raise("TypeError", s.printed)
    ELSE Return([of |-> s.val[1], at |-> tq], s.printed)

\* -------------------------------------------------------------------- state

VARIABLES
    pc,        \* where the client is: "start", "reading" (inside from_file's
               \* loop), "ready" (an instance exists), "iter" (a row iterator
               \* is suspended at its yield), "iterated" (one pass is over),
               \* "done" (the call on the instance is over), "raised" (the
               \* construction raised)
    how,       \* "mem" or "file": which construction was used
    given,     \* in-memory construction: an uncertainty sequence was supplied
    t, v, dv,  \* from_file's lists
    i,         \* from_file's line counter (the index enumerate gives)
    out,       \* the diagnostics from_file's loop has printed
    cur,       \* Classify of the line read last
    kept,      \* the (time, value) of the lines read whose two first fields
               \* are floats, in order
    anyThird,  \* a line read had three float fields
    shapes,    \* the field counts (2, 3) of the lines read that are well
               \* formed: two floats, and the third field absent or a float
    data,      \* the instance's _data
    res,       \* the call made on the instance and its outcome
    gen        \* the row iterator: its pass, the range's length, the next
               \* index, the rows yielded in this pass and those of the
               \* pass before

vars == << pc, how, given, t, v, dv, i, out, cur, kept, anyThird, shapes,
           data, res, gen >>

fileVars == << t, v, dv, i, out, cur, kept, anyThird, shapes >>

Call(op, args, r) ==
    [op |-> op, args |-> args, kind |-> r.kind, val |-> r.val, exc |-> r.exc,
     printed |-> r.printed]

NoRes == [op |-> "", args |-> << >>, kind |-> "", val |-> None, exc |-> "",
          printed |-> << >>]

NoGen == [pass |-> 0, n |-> 0, k |-> 0, yielded |-> << >>, first |-> << >>]

Init ==
    /\ pc = "start"
    /\ how = ""
    /\ given = FALSE
    /\ t = << >> /\ v = << >> /\ dv = << >>
    /\ i = 0
    /\ out = << >>
    /\ cur = NoLine
    /\ kept = << >>
    /\ anyThird = FALSE
    /\ shapes = {}
    /\ data = NoData
    /\ res = NoRes
    /\ gen = NoGen

\* The outcome r of a constructor call reaches the client.
Constructed(r) ==
    /\ pc' = IF r.kind = "raise" THEN "raised" ELSE "ready"
    /\ data' = IF r.kind = "raise" THEN NoData ELSE r.val[1]
    /\ res' = IF r.kind = "raise" THEN Call("__init__", << >>, r) ELSE NoRes

\* VoltageData(times, voltages) or VoltageData(times, voltages, voltage_errors)
Construct ==
    /\ pc = "start"
    /\ \E times \in TimeSeqs,
          volts \in SeqsUpTo(VoltVals, MaxRows),
          errs \in {None} \cup {Some(e) : e \in SeqsUpTo(ErrVals, MaxRows)} :
        /\ Constructed(VoltageData(times, volts, errs))
        /\ given' = (errs # None)
    /\ how' = "mem"
    /\ UNCHANGED << fileVars, gen >>

\* VoltageData.from_file(file_path): the lists are created, the file opened.
FromFileOpen ==
    /\ pc = "start"
    /\ pc' = "reading"
    /\ how' = "file"
    /\ UNCHANGED << given, fileVars, data, res, gen >>

\* One turn of `for i, line in enumerate(file)`.
FromFileReadLine ==
    /\ pc = "reading"
    /\ i < MaxLines
    /\ \E body \in Lines :
        LET line == body \o << NL >>
            s == LoopBody(i, line, t, v, dv, out)
            c == Classify(line)
            f == Fields(line)
        IN /\ t' = s.t /\ v' = s.v /\ dv' = s.dv /\ out' = s.out
           /\ cur' = c
           /\ kept' = IF ~c.comment /\ c.timeOK /\ c.valueOK
                      THEN Append(kept, << FloatVal(f[1]), FloatVal(f[2]) >>)
                      ELSE kept
           /\ anyThird' = (anyThird \/ (~c.comment /\ c.timeOK /\ c.valueOK /\ c.thirdOK))
           /\ shapes' = IF ~c.comment /\ c.timeOK /\ c.valueOK
                           /\ (c.thirdPresent => c.thirdOK)
                        THEN shapes \cup {IF c.thirdPresent THEN 3 ELSE 2}
                        ELSE shapes
    /\ i' = i + 1
    /\ UNCHANGED << pc, how, given, data, res, gen >>

\* The file is exhausted: `return cls(t, v, dv)` or `return cls(t, v)`.
\* from_file's locals are gone when it has returned; the record of the loop
\* (out, shapes) is kept when the construction raised and dropped with the
\* locals when an instance is returned.
FromFileEnd ==
    /\ pc = "reading"
    /\ Constructed(FromFileReturn(t, v, dv))
    /\ t' = << >> /\ v' = << >> /\ dv' = << >> /\ i' = 0 /\ cur' = NoLine
    /\ out' = IF FromFileReturn(t, v, dv).kind = "raise" THEN out ELSE << >>
    /\ shapes' = IF FromFileReturn(t, v, dv).kind = "raise" THEN shapes ELSE {}
    /\ UNCHANGED << how, given, kept, anyThird, gen >>

\* The client makes one call on the instance; r is its outcome.
Called(op, args, r) ==
    /\ pc = "ready"
    /\ pc' = "done"
    /\ res' = Call(op, args, r)
    /\ UNCHANGED << how, given, fileVars, data, gen >>

Timestamps == Called("timestamps", << >>, timestamps(data))

Voltages == Called("voltages", << >>, voltages(data))

VoltageErrs == Called("voltage_errs", << >>, voltage_errs(data))

NumRows == Called("num_rows", << >>, Return(num_rows(data), << >>))

NumColumns == Called("num_columns", << >>, Return(num_columns(data), << >>))

LenCall == Called("__len__", << >>, Return(len(data), << >>))

GetItemRow ==
    /\ pc = "ready"
    /\ \E idx \in (-MaxIdx)..MaxIdx :
        Called("getitem_row", << idx >>, getitem_row(data, idx))

GetItemSlice ==
    /\ pc = "ready"
    /\ \E a \in (-1)..MaxIdx, b \in (-1)..MaxIdx, c \in 0..(ErrColumn + 1),
          e \in 0..(ErrColumn + 1) :
        Called("getitem_slice", << a, b, c, e >>, getitem_slice(data, a, b, c, e))

SplineCall == Called("spline", << >>, spline(data))

CallCall ==
    /\ pc = "ready"
    /\ \E tq \in TimeVals : Called("__call__", << tq >>, call(data, tq))

\* ---------------------------------------------------------------- iteration

\* The row the iterator yields for index k, read from the far end (a mutant).
iter_row_Reversed(d, k) == d.rows[num_rows(d) - k]

\* `yield self._data[i, :]` for i = k (0-based): row k as a 1-D array.
iter_row(d, k) == d.rows[k + 1]

\* iter(instance): a new generator; `range(len(self))` fixes its length.
IterStart ==
    /\ pc \in {"ready", "iterated"}
    /\ pc' = "iter"
    /\ gen' = [pass |-> gen.pass + 1, n |-> len(data), k |-> 0,
               yielded |-> << >>, first |-> gen.yielded]
    /\ UNCHANGED << how, given, fileVars, data, res >>

\* next(generator): the next row, or StopIteration when the range is used up.
IterNext ==
    /\ pc = "iter"
    /\ IF gen.k < gen.n
       THEN /\ gen' = [gen EXCEPT !.k = @ + 1,
                                  !.yielded = Append(@, iter_row(data, gen.k))]
            /\ pc' = "iter"
       ELSE /\ gen' = gen
            /\ pc' = IF gen.pass = 1 THEN "iterated" ELSE "done"
    /\ UNCHANGED << how, given, fileVars, data, res >>

\* ------------------------------------------------------------ specification

Next ==
    \/ Construct
    \/ FromFileOpen
    \/ FromFileReadLine
    \/ FromFileEnd
    \/ Timestamps
    \/ Voltages
    \/ VoltageErrs
    \/ NumRows
    \/ NumColumns
    \/ LenCall
    \/ GetItemRow
    \/ GetItemSlice
    \/ SplineCall
    \/ CallCall
    \/ IterStart
    \/ IterNext

Spec == Init /\ [][Next]_vars

\* ------------------------------------------------------------------- claims

\* An instance exists.
Built == pc \in {"ready", "iter", "iterated", "done"}

\* A step of from_file's loop: one more line has been read.
LineRead == pc = "reading" /\ pc' = "reading" /\ i' = i + 1

\* The line read last is no comment and its time and value fields do not
\* both parse.
BadTimeOrValue == ~cur.comment /\ ~(cur.timeOK /\ cur.valueOK)

\* C1: every constructed instance has 2 or 3 columns, and 3 exactly when an
\* uncertainty sequence was supplied (in-memory) or a retained line of the
\* file had a third field that parsed.
C1_ColumnCount ==
    Built =>
        /\ num_columns(data) \in {2, 3}
        /\ (num_columns(data) = 3) <=>
               ((how = "mem" /\ given) \/ (how = "file" /\ anyThird))

C1_Witness ==
    pc = "ready" /\ how = "file" /\ anyThird /\ num_columns(data) = 3
    /\ num_rows(data) = 2

\* C2: voltage_errs on a 2-column instance raises AttributeError, never
\* IndexError; on a 3-column instance it returns column 2, one cell per row.
C2_VoltageErrs ==
    res.op = "voltage_errs" =>
        /\ num_columns(data) = 2 =>
               res.kind = "raise" /\ res.exc = "AttributeError"
        /\ num_columns(data) = 3 =>
               /\ res.kind = "return"
               /\ Len(res.val[1]) = num_rows(data)
               /\ \A k \in 1..num_rows(data) : res.val[1][k] = data.rows[k][3]

C2_Witness ==
    res.op = "voltage_errs" /\ num_columns(data) = 2 /\ num_rows(data) > 0
    /\ res.exc = "AttributeError"

\* C3: a malformed line never makes from_file raise: when from_file raises,
\* the well-formed lines themselves disagree (some have two fields and some
\* three).
C3_MalformedNeverFails ==
    (pc = "raised" /\ how = "file") => shapes = {2, 3}

\* C4: a line whose time and value parse but whose third field is present
\* and does not parse is discarded whole: the loop's lists are as before.
C4_BadThirdDiscardsLine ==
    [][(LineRead /\ ~cur'.comment /\ cur'.timeOK /\ cur'.valueOK
          /\ cur'.thirdPresent /\ ~cur'.thirdOK)
       => (t' = t /\ v' = v /\ dv' = dv)]_vars

C7_Iteration ==
    (Built /\ gen.pass >= 1) =>
        /\ gen.yielded = SubSeq(data.rows, 1, gen.k)
        /\ \A k \in 1..Len(gen.yielded) : Len(gen.yielded[k]) = num_columns(data)
        /\ pc \in {"iterated", "done"} => Len(gen.yielded) = num_rows(data)
        /\ gen.pass = 2 => Len(gen.first) = num_rows(data)
        /\ (pc = "done" /\ gen.pass = 2) => gen.yielded = gen.first

C7_Witness ==
    pc = "done" /\ gen.pass = 2 /\ Len(gen.yielded) = 3
    /\ gen.yielded[1] # gen.yielded[2] /\ gen.yielded = gen.first

\* Cell (r, c), 0-based, of the table.
Cell(d, r, c) == d.rows[r + 1][c + 1]

\* idx is the index of a row of the table.
RowIndexed(idx) == 0 <= idx /\ idx < num_rows(data)

\* C8 as stated: [a:b, c:d] has shape (b-a, d-c) and its cell (i, j) is cell
\* (a+i, c+j) of the table; the index of a row returns that row, of length C.
C8_Original ==
    /\ res.op = "getitem_slice" =>
           LET a == res.args[1]  b == res.args[2]
               c == res.args[3]  e == res.args[4]
           IN /\ res.kind = "return"
              /\ res.val[1].shape = << b - a, e - c >>
              /\ \A r \in 0..(b - a - 1), j \in 0..(e - c - 1) :
                     Cell(res.val[1], r, j) = Cell(data, a + r, c + j)
    /\ (res.op = "getitem_row" /\ RowIndexed(res.args[1])) =>
           /\ res.kind = "return"
           /\ res.val[1] = data.rows[res.args[1] + 1]
           /\ Len(res.val[1]) = num_columns(data)

\* C8 as amended: the same, for the slices that lie within the table:
\* 0 <= a <= b <= R and 0 <= c <= d <= C.
C8_Amended ==
    /\ res.op = "getitem_slice" =>
           LET a == res.args[1]  b == res.args[2]
               c == res.args[3]  e == res.args[4]
           IN (0 <= a /\ a <= b /\ b <= num_rows(data)
                 /\ 0 <= c /\ c <= e /\ e <= num_columns(data)) =>
                 /\ res.kind = "return"
                 /\ res.val[1].shape = << b - a, e - c >>
                 /\ Len(res.val[1].rows) = b - a
                 /\ \A r \in 0..(b - a - 1) : Len(res.val[1].rows[r + 1]) = e - c
                 /\ \A r \in 0..(b - a - 1), j \in 0..(e - c - 1) :
                        Cell(res.val[1], r, j) = Cell(data, a + r, c + j)
    /\ (res.op = "getitem_row" /\ RowIndexed(res.args[1])) =>
           /\ res.kind = "return"
           /\ res.val[1] = data.rows[res.args[1] + 1]
           /\ Len(res.val[1]) = num_columns(data)

C8_Witness ==
    res.op = "getitem_slice" /\ res.args = << 1, 3, 1, 3 >>
    /\ num_rows(data) = 4 /\ num_columns(data) = 3
    /\ res.val[1].shape = << 2, 2 >>

C10_CallNeverRaises ==
    (res.op = "__call__" /\ num_rows(data) < 4) =>
        /\ res.kind = "return"
        /\ res.val = None
        /\ res.printed = << InsufficientPoints >>

=============================================================================
